---- MODULE Spec2Model ----
(***************************************************************************)
(* Model of the round-robin pairing engine (models/pairing.py, class       *)
(* Pairing).  A player identifier 'p_k' is the tuple <<"p", k>>; a match   *)
(* is a 2-tuple of player identifiers; a configuration is a set of         *)
(* matches; the schedule is a sequence of configurations.  The loop of     *)
(* the form controller (controllers/controller_form.py, class              *)
(* ControllerForm) is modelled at the end of the module.                   *)
(***************************************************************************)
EXTENDS Integers, Sequences, FiniteSets, TLC

\* Largest roster of a running engine (specification Spec).
MaxPlayers == 4

\* Largest roster handed to a constructor (specification SpecSchedule).
MaxSeats == 7

\* Longest list of played matches handed to instantiate_pairing.
MaxPlayedLen == 1

\* ------------------------------------------------------------------------
\* Values
\* ------------------------------------------------------------------------

\* The identifier 'p_k'.
P(k) == <<"p", k>>

\* What a call gives back: a returned configuration, None, or IndexError.
Return(value) == [kind |-> "return", value |-> value]

None == [kind |-> "None", value |-> {}]

IndexError == [kind |-> "IndexError", value |-> {}]

\* Python truthiness of a result, as tested by 'not result'.
Falsy(result) ==
    \/ result.kind = "None"
    \/ (result.kind = "return" /\ result.value = {})

Range(seq) == { seq[i] : i \in 1..Len(seq) }

\* ------------------------------------------------------------------------
\* Pure functions of Pairing
\* ------------------------------------------------------------------------

\* int(player_id.split('_')[1])
get_player_number(player_id) == player_id[2]

\* tuple(sorted([a, b], key=get_player_number)); sorted() is stable.
SortedPair(a, b) ==
    IF get_player_number(a) <= get_player_number(b) THEN <<a, b>> ELSE <<b, a>>

\* All orders of a list: the outcomes of random.shuffle.
RECURSIVE IndexOrders(_)
IndexOrders(S) ==
    IF S = {} THEN { <<>> }
    ELSE UNION { { <<i>> \o rest : rest \in IndexOrders(S \ {i}) } : i \in S }

randomize_players(list_of_players) ==
    { [i \in 1..Len(list_of_players) |-> list_of_players[order[i]]] :
        order \in IndexOrders(1..Len(list_of_players)) }

\* A rotation that moves the first seat too: old[-1] followed by old[:-1].
rearrange_list_rotates_all(old_list) ==
    <<old_list[Len(old_list)]>> \o SubSeq(old_list, 1, Len(old_list) - 1)

\* [old[0], old[-1]] followed by old[1:-1]
rearrange_list(old_list) ==
    <<old_list[1], old_list[Len(old_list)]>>
        \o SubSeq(old_list, 2, Len(old_list) - 1)

\* seat i is paired with seat -i-1, for i in range(int(len / 2))
generate_pairing(list_configuration) ==
    { SortedPair(list_configuration[i + 1],
                 list_configuration[Len(list_configuration) - i]) :
        i \in 0..((Len(list_configuration) \div 2) - 1) }

\* The while loop of generate_circle_configurations: i runs from 1 to len - 1.
RECURSIVE CircleLoop(_, _, _, _)
CircleLoop(current_configuration, i, n, configurations) ==
    IF i < n
    THEN LET next_configuration == rearrange_list(current_configuration)
         IN  CircleLoop(next_configuration, i + 1, n,
                        Append(configurations,
                               generate_pairing(next_configuration)))
    ELSE configurations

generate_circle_configurations(initial_configuration, possibles_configurations) ==
    CircleLoop(initial_configuration, 1, Len(initial_configuration),
               possibles_configurations)

\* A memory that is replaced by the round instead of extended with it.
add_to_memory_overwrites(played_matches, round_matches) ==
    round_matches

\* self.played_matches.add(match) for every match of the round
add_to_memory(played_matches, round_matches) ==
    played_matches \cup round_matches

\* ------------------------------------------------------------------------
\* The engine as a value, and its methods as functions engine -> outcome
\* ------------------------------------------------------------------------

Engine(players, arrangement, configurations, played) ==
    [list_of_players |-> players,
     initial_configuration |-> arrangement,
     possibles_configurations |-> configurations,
     played_matches |-> played]

Outcome(engine, result) == [engine |-> engine, result |-> result]

\* __init__ with new_pairing=True, 'shuffled' being what the shuffle gave.
new_pairing(list_of_players, shuffled) ==
    Engine(list_of_players, shuffled,
           generate_circle_configurations(shuffled, <<>>), {})

\* The first index that a loop over range() or over a list comes to.
Least(numbers) == CHOOSE n \in numbers : \A other \in numbers : n <= other

\* A removal that is forgotten.
RemoveFirst_forgotten(seq, x) ==
    seq

\* list.remove(x): drops the first element equal to x.
RemoveFirst(seq, x) ==
    LET k == Least({ i \in 1..Len(seq) : seq[i] = x })
    IN  SubSeq(seq, 1, k - 1) \o SubSeq(seq, k + 1, Len(seq))

\* A first-round selection that takes the configuration off the schedule
\* and returns it without recording its matches.
generate_first_round_configuration_forgets(e) ==
    IF e.possibles_configurations = <<>>
    THEN Outcome(e, IndexError)
    ELSE LET n == Len(e.possibles_configurations)
             matches == e.possibles_configurations[n]
         IN  Outcome(Engine(e.list_of_players, e.initial_configuration,
                            SubSeq(e.possibles_configurations, 1, n - 1),
                            e.played_matches),
                     Return(matches))

\* A first round read from the end of the list but left in it.
generate_first_round_configuration_keeps(e) ==
    IF e.possibles_configurations = <<>>
    THEN Outcome(e, IndexError)
    ELSE LET n == Len(e.possibles_configurations)
             matches == e.possibles_configurations[n]
         IN  Outcome(Engine(e.list_of_players, e.initial_configuration,
                            e.possibles_configurations,
                            add_to_memory(e.played_matches, matches)),
                     Return(matches))

\* A first round taken from the front of the list: pop(0).
generate_first_round_configuration_pops_first(e) ==
    IF e.possibles_configurations = <<>>
    THEN Outcome(e, IndexError)
    ELSE LET matches == Head(e.possibles_configurations)
         IN  Outcome(Engine(e.list_of_players, e.initial_configuration,
                            Tail(e.possibles_configurations),
                            add_to_memory(e.played_matches, matches)),
                     Return(matches))

generate_first_round_configuration(e) ==
    IF e.possibles_configurations = <<>>
    THEN Outcome(e, IndexError)
    ELSE LET n == Len(e.possibles_configurations)
             matches == e.possibles_configurations[n]
         IN  Outcome(Engine(e.list_of_players, e.initial_configuration,
                            SubSeq(e.possibles_configurations, 1, n - 1),
                            add_to_memory(e.played_matches, matches)),
                     Return(matches))

\* An anchor search that records the match it was asked for when no
\* remaining configuration holds it.
generate_round_configuration_from_match_records_miss(e, match) ==
    LET found == { i \in 1..Len(e.possibles_configurations) :
                     match \in e.possibles_configurations[i] }
    IN  IF found = {}
        THEN Outcome(Engine(e.list_of_players, e.initial_configuration,
                            e.possibles_configurations,
                            add_to_memory(e.played_matches, {match})),
                     None)
        ELSE LET next_round_configuration ==
                     e.possibles_configurations[Least(found)]
             IN  Outcome(Engine(e.list_of_players, e.initial_configuration,
                                RemoveFirst(e.possibles_configurations,
                                            next_round_configuration),
                                add_to_memory(e.played_matches,
                                              next_round_configuration)),
                         Return(next_round_configuration))

\* An anchor search that records the anchor match alone, not the whole
\* configuration it returns.
generate_round_configuration_from_match_records_anchor(e, match) ==
    LET found == { i \in 1..Len(e.possibles_configurations) :
                     match \in e.possibles_configurations[i] }
    IN  IF found = {}
        THEN Outcome(e, None)
        ELSE LET next_round_configuration ==
                     e.possibles_configurations[Least(found)]
             IN  Outcome(Engine(e.list_of_players, e.initial_configuration,
                                RemoveFirst(e.possibles_configurations,
                                            next_round_configuration),
                                add_to_memory(e.played_matches, {match})),
                         Return(next_round_configuration))

generate_round_configuration_from_match(e, match) ==
    LET found == { i \in 1..Len(e.possibles_configurations) :
                     match \in e.possibles_configurations[i] }
    IN  IF found = {}
        THEN Outcome(e, None)
        ELSE LET next_round_configuration ==
                     e.possibles_configurations[Least(found)]
             IN  Outcome(Engine(e.list_of_players, e.initial_configuration,
                                RemoveFirst(e.possibles_configurations,
                                            next_round_configuration),
                                add_to_memory(e.played_matches,
                                              next_round_configuration)),
                         Return(next_round_configuration))

\* A scan that tests and hands on the pair as listed, without sorting it.
try_to_generate_next_round_unsorted(e, list_of_players) ==
    LET match_test(i, j) == <<list_of_players[i], list_of_players[j]>>
        unplayed(i) == { j \in (i + 1)..Len(list_of_players) :
                           match_test(i, j) \notin e.played_matches }
        rows == { i \in 1..Len(list_of_players) : unplayed(i) # {} }
    IN  IF rows = {}
        THEN Outcome(e, None)
        ELSE generate_round_configuration_from_match(
                 e, match_test(Least(rows), Least(unplayed(Least(rows)))))

\* for i ..., for j in range(i+1, ...): the first (i, j) in scan order whose
\* sorted match is not in memory decides, whatever the anchor search gives.
try_to_generate_next_round(e, list_of_players) ==
    LET match_test(i, j) == SortedPair(list_of_players[i], list_of_players[j])
        unplayed(i) == { j \in (i + 1)..Len(list_of_players) :
                           match_test(i, j) \notin e.played_matches }
        rows == { i \in 1..Len(list_of_players) : unplayed(i) # {} }
    IN  IF rows = {}
        THEN Outcome(e, None)
        ELSE generate_round_configuration_from_match(
                 e, match_test(Least(rows), Least(unplayed(Least(rows)))))

\* The rank keys taken from the worst rank to the best.
RECURSIVE SortedKeys_descending(_)
SortedKeys_descending(keys) ==
    IF keys = {} THEN <<>>
    ELSE LET most == CHOOSE k \in keys : \A other \in keys : k >= other
         IN  <<most>> \o SortedKeys_descending(keys \ {most})

\* sorted(dict_ranking.keys(), key=int)
RECURSIVE SortedKeys(_)
SortedKeys(keys) ==
    IF keys = {} THEN <<>>
    ELSE LET least == CHOOSE k \in keys : \A other \in keys : k <= other
         IN  <<least>> \o SortedKeys(keys \ {least})

\* The while loop of generate_next_round_from_ranking; i is 1-based here.
RECURSIVE RankingLoop(_, _, _, _, _, _)
RankingLoop(e, dict_ranking, ranking_key, i, accumulated_list, result) ==
    IF i <= Len(ranking_key) /\ Falsy(result)
    THEN LET extended == accumulated_list \o dict_ranking[ranking_key[i]]
             attempt == try_to_generate_next_round(e, extended)
         IN  RankingLoop(attempt.engine, dict_ranking, ranking_key, i + 1,
                         extended, attempt.result)
    ELSE Outcome(e, result)

generate_next_round_from_ranking(e, dict_ranking) ==
    RankingLoop(e, dict_ranking, SortedKeys(DOMAIN dict_ranking), 1, <<>>, None)

\* The filter with its test the wrong way round: keeps the configurations
\* that share a match with memory.
RECURSIVE FilterPlayed_inverted(_, _)
FilterPlayed_inverted(configurations, played_matches) ==
    IF configurations = <<>> THEN <<>>
    ELSE LET rest == FilterPlayed_inverted(Tail(configurations), played_matches)
         IN  IF Head(configurations) \cap played_matches # {}
             THEN <<Head(configurations)>> \o rest
             ELSE rest

\* The list comprehension that keeps the configurations sharing no match
\* with memory.
RECURSIVE FilterPlayed(_, _)
FilterPlayed(configurations, played_matches) ==
    IF configurations = <<>> THEN <<>>
    ELSE LET rest == FilterPlayed(Tail(configurations), played_matches)
         IN  IF Head(configurations) \cap played_matches = {}
             THEN <<Head(configurations)>> \o rest
             ELSE rest

\* A reconstruction that lists the configurations it keeps from the last
\* generated to the first.
instantiate_pairing_lists_backwards(list_of_players, initial_configuration, list_played_matches) ==
    LET played == {} \cup Range(list_played_matches)
        kept == FilterPlayed(
                    generate_circle_configurations(initial_configuration, <<>>),
                    played)
    IN  Engine(list_of_players, initial_configuration,
               [k \in 1..Len(kept) |-> kept[Len(kept) + 1 - k]],
               played)

\* A reconstruction that filters the schedule before the played matches are
\* put in memory.
instantiate_pairing_filters_early(list_of_players, initial_configuration, list_played_matches) ==
    Engine(list_of_players, initial_configuration,
           FilterPlayed(
               generate_circle_configurations(initial_configuration, <<>>),
               {}),
           {} \cup Range(list_played_matches))

instantiate_pairing(list_of_players, initial_configuration, list_played_matches) ==
    LET played == {} \cup Range(list_played_matches)
    IN  Engine(list_of_players, initial_configuration,
               FilterPlayed(
                   generate_circle_configurations(initial_configuration, <<>>),
                   played),
               played)

\* ------------------------------------------------------------------------
\* Inputs
\* ------------------------------------------------------------------------

\* ['p_1', ..., 'p_n']
Roster(n) == [k \in 1..n |-> P(k)]

\* Rosters of a running engine: an even number of distinct players.
Rosters == { Roster(n) : n \in { m \in 2..MaxPlayers : m % 2 = 0 } }

\* Matches a caller may name: two distinct players, in either order.
Matches(players) ==
    { <<a, b>> : a \in Range(players), b \in Range(players) } \
        { <<a, a>> : a \in Range(players) }

\* Lists of played matches handed to instantiate_pairing, up to a length.
PlayedLists(players, longest) ==
    UNION { [1..len -> Matches(players)] : len \in 0..longest }

\* The roster with the players at positions a and b exchanged.
Swap(players, a, b) ==
    [k \in 1..Len(players) |->
        IF k = a THEN players[b] ELSE IF k = b THEN players[a] ELSE players[k]]

\* Rankings covering the roster: a standing (an order of the players) cut
\* into rank groups, as the dict {rank: [players]}; a group of tied players
\* takes the rank of its first place.  No ties, all players tied, or the
\* upper half tied and the lower half tied; and the empty ranking.
Standings(players) ==
    { Swap(players, a, b) : a \in 1..Len(players), b \in 1..Len(players) }

Rankings(players) ==
    LET n == Len(players)
        strict(s) == [rank \in 1..n |-> <<s[rank]>>]
        split(s, k) == [rank \in {1, k + 1} |->
                           IF rank = 1 /\ k > 0 THEN SubSeq(s, 1, k)
                           ELSE SubSeq(s, k + 1, n)]
    IN  { strict(s) : s \in Standings(players) }
            \cup { split(s, k) : s \in Standings(players), k \in {0, n \div 2} }
            \cup { <<>> }

\* ------------------------------------------------------------------------
\* State
\* ------------------------------------------------------------------------

VARIABLES
    list_of_players,            \* self.list_of_players
    initial_configuration,      \* self.initial_configuration
    possibles_configurations,   \* self.possibles_configurations
    played_matches,             \* self.played_matches
    origin,                     \* "none", "fresh" (__init__) or "restored"
    call,                       \* the method called last
    result,                     \* what that call gave back
    returned,                   \* the configurations returned so far, in order
    twin,                       \* the engine built the other way from the
                                \* same arrangement, given the same calls
    twin_result,                \* what the last call gave back on the twin
    exhaustion_signal           \* what ranking-based selection last gave
                                \* back on a fully consumed schedule

engine_vars == <<list_of_players, initial_configuration,
                 possibles_configurations, played_matches, origin, call,
                 result, returned, twin, twin_result, exhaustion_signal>>

self == Engine(list_of_players, initial_configuration,
               possibles_configurations, played_matches)

\* The form of ControllerForm (controllers/controller_form.py).
VARIABLES
    form_pc,        \* where start() is: "idle", "loop", "returned", "raised"
    element,        \* self.element
    error_msg,      \* the local error_msg of start()
    action,         \* the local action: what the view gave last
    answer,         \* the local answer: what try_to_create_element gave last
    database,       \* the records saved by save_to_database(), in order
    start_result    \* what start() returned, or the exception it raised

form_vars == <<form_pc, element, error_msg, action, answer, database,
               start_result>>

vars == <<engine_vars, form_vars>>

\* What form_view.start_view(error_msg) returns: 'BACK', or
\* ('VALIDATE', element, data).
ViewAction(name, asked, data) == [name |-> name, element |-> asked, data |-> data]

NoAction == ViewAction("", "", <<>>)

Unset == [kind |-> "unset", value |-> {}]

Becomes(e) ==
    /\ list_of_players' = e.list_of_players
    /\ initial_configuration' = e.initial_configuration
    /\ possibles_configurations' = e.possibles_configurations
    /\ played_matches' = e.played_matches

Init ==
    /\ list_of_players = <<>>
    /\ initial_configuration = <<>>
    /\ possibles_configurations = <<>>
    /\ played_matches = {}
    /\ origin = "none"
    /\ call = "none"
    /\ result = Unset
    /\ returned = <<>>
    /\ twin = Engine(<<>>, <<>>, <<>>, {})
    /\ twin_result = Unset
    /\ exhaustion_signal = Unset
    /\ form_pc = "idle"
    /\ element = ""
    /\ error_msg = Unset
    /\ action = NoAction
    /\ answer = Unset
    /\ database = <<>>
    /\ start_result = Unset

\* ------------------------------------------------------------------------
\* Operations
\* ------------------------------------------------------------------------

\* A selection on an engine whose whole schedule was consumed.
Consumed == possibles_configurations = <<>>

\* What a selection call leaves behind, on the engine and on its twin.
Selected(name, outcome, twin_outcome) ==
    /\ origin # "none"
    /\ Len(returned) < MaxPlayers
    /\ Becomes(outcome.engine)
    /\ call' = name
    /\ result' = outcome.result
    /\ returned' = IF outcome.result.kind = "return"
                   THEN Append(returned, outcome.result.value)
                   ELSE returned
    /\ twin' = twin_outcome.engine
    /\ twin_result' = twin_outcome.result
    /\ UNCHANGED origin
    /\ UNCHANGED form_vars

\* Pairing(list_of_players): the shuffle may give any order.
New(rosters) ==
    /\ origin = "none"
    /\ \E players \in rosters :
       \E shuffled \in randomize_players(players) :
          /\ Becomes(new_pairing(players, shuffled))
          /\ twin' = instantiate_pairing(players, shuffled, <<>>)
    /\ origin' = "fresh"
    /\ call' = "__init__"
    /\ UNCHANGED <<result, returned, twin_result, exhaustion_signal>>
    /\ UNCHANGED form_vars

\* Pairing.instantiate_pairing(list_of_players, initial_configuration,
\* list_played_matches), the arrangement being one of the same roster and
\* the list no longer than 'longest'.
InstantiatePairing(rosters, longest) ==
    /\ origin = "none"
    /\ \E players \in rosters :
       \E arrangement \in randomize_players(players) :
       \E list_played_matches \in PlayedLists(players, longest) :
          /\ Becomes(instantiate_pairing(players, arrangement,
                                         list_played_matches))
          /\ twin' = IF list_played_matches = <<>>
                     THEN new_pairing(players, arrangement)
                     ELSE instantiate_pairing(players, arrangement,
                                              list_played_matches)
    /\ origin' = "restored"
    /\ call' = "instantiate_pairing"
    /\ UNCHANGED <<result, returned, twin_result, exhaustion_signal>>
    /\ UNCHANGED form_vars

\* The same call on the twin.
OnTwin(outcome, twin_outcome) ==
    IF twin = self THEN outcome ELSE twin_outcome

GenerateFirstRoundConfiguration ==
    \E outcome \in { generate_first_round_configuration(self) } :
        /\ Selected("generate_first_round_configuration", outcome,
                    OnTwin(outcome, generate_first_round_configuration(twin)))
        /\ UNCHANGED exhaustion_signal

GenerateRoundConfigurationFromMatch(match) ==
    \E outcome \in { generate_round_configuration_from_match(self, match) } :
        /\ Selected("generate_round_configuration_from_match", outcome,
                    OnTwin(outcome,
                           generate_round_configuration_from_match(twin, match)))
        /\ UNCHANGED exhaustion_signal

GenerateNextRoundFromRanking(dict_ranking) ==
    \E outcome \in { generate_next_round_from_ranking(self, dict_ranking) } :
        /\ Selected("generate_next_round_from_ranking", outcome,
                    OnTwin(outcome,
                           generate_next_round_from_ranking(twin, dict_ranking)))
        /\ exhaustion_signal' =
              IF Consumed THEN outcome.result ELSE exhaustion_signal

Next ==
    \/ New(Rosters)
    \/ InstantiatePairing(Rosters, MaxPlayedLen)
    \/ GenerateFirstRoundConfiguration
    \/ \E match \in Matches(list_of_players) :
          GenerateRoundConfigurationFromMatch(match)
    \/ \E dict_ranking \in Rankings(list_of_players) :
          GenerateNextRoundFromRanking(dict_ranking)

Spec == Init /\ [][Next]_vars

\* ------------------------------------------------------------------------
\* Construction alone, over any roster a caller may hand in
\* ------------------------------------------------------------------------

\* Rosters of up to MaxSeats distinct players, and rosters of up to
\* MaxPlayers where the first player is entered a second time, in the last
\* place.
AnyRosters ==
    { Roster(n) : n \in 0..MaxSeats }
        \cup { [Roster(n) EXCEPT ![n] = P(1)] : n \in 2..MaxPlayers }

\* Construction from any roster: fresh, or restored before the first round
\* (an empty list of played matches).
NextSchedule ==
    \/ New(AnyRosters)
    \/ InstantiatePairing(AnyRosters, 0)

SpecSchedule == Init /\ [][NextSchedule]_vars

\* ------------------------------------------------------------------------
\* Vocabulary of the properties
\* ------------------------------------------------------------------------

\* An even, positive number of distinct players.
WellFormed(players) ==
    /\ Len(players) >= 2
    /\ Len(players) % 2 = 0
    /\ \A i, j \in 1..Len(players) : players[i] = players[j] => i = j

\* The two players of a match, whichever way round it is written.
Pair(match) == { match[1], match[2] }

\* Every player of the roster is in exactly one match of the configuration.
PerfectMatching(configuration, players) ==
    /\ Cardinality(configuration) * 2 = Len(players)
    /\ \A m \in configuration :
          Pair(m) \subseteq Range(players) /\ m[1] # m[2]
    /\ \A p \in Range(players) :
          Cardinality({ m \in configuration : p \in Pair(m) }) = 1

\* The configurations (by index) that hold the pair {a, b}.
Holding(configurations, a, b) ==
    { i \in 1..Len(configurations) :
        \E m \in configurations[i] : Pair(m) = {a, b} }

\* The round-robin completeness invariant of a schedule.
Complete(configurations, players) ==
    /\ Len(configurations) = Len(players) - 1
    /\ \A i \in 1..Len(configurations) :
          PerfectMatching(configurations[i], players)
    /\ \A i, j \in 1..Len(players) :
          i < j => Cardinality(Holding(configurations, players[i],
                                       players[j])) = 1
    /\ Cardinality(UNION Range(configurations)) * 2
          = Len(players) * (Len(players) - 1)

\* A list holding the elements of a set, as list(a_set) gives.
RECURSIVE SetAsList(_)
SetAsList(S) ==
    IF S = {} THEN <<>>
    ELSE LET x == CHOOSE y \in S : TRUE
         IN  <<x>> \o SetAsList(S \ {x})

IsSelection ==
    call \in { "generate_first_round_configuration",
               "generate_round_configuration_from_match",
               "generate_next_round_from_ranking" }

\* ------------------------------------------------------------------------
\* Properties
\* ------------------------------------------------------------------------

\* C1 - Round-robin completeness: for an even number N >= 2 of distinct
\* players and any arrangement of them, the schedule a fresh engine
\* generates has exactly N-1 configurations, each a perfect matching over
\* the roster, and every unordered pair of players is in exactly one of
\* them, N*(N-1)/2 matches in all.
C1_Completeness ==
    (origin = "fresh" /\ WellFormed(list_of_players))
        => Complete(possibles_configurations, list_of_players)

\* A schedule generated for the largest even roster from a shuffled
\* arrangement.
C1_Witness ==
    /\ origin = "fresh"
    /\ WellFormed(list_of_players)
    /\ Len(list_of_players) >= MaxSeats - 1
    /\ initial_configuration # list_of_players
    /\ Len(possibles_configurations) = Len(list_of_players) - 1

\* C6 - Malformed rosters are rejected: no engine, fresh or restored, is
\* ever built from a roster that is empty, odd or holds a player twice, so
\* every configuration of every engine built is a perfect matching.
C6_MalformedRejected ==
    origin # "none"
        => /\ WellFormed(list_of_players)
           /\ \A i \in 1..Len(possibles_configurations) :
                 PerfectMatching(possibles_configurations[i], list_of_players)

\* The reconstruction that is checked against a running engine:
\* instantiate_pairing with the engine's roster, arrangement and memory.
Reconstructed ==
    instantiate_pairing(list_of_players, initial_configuration,
                        SetAsList(played_matches))

\* C2 - No-repeat guarantee: whatever the sequence of first-round,
\* anchor-based and ranking-based selections on one engine, no unordered
\* pair of players is in more than one of the configurations returned.
C2_NoRepeat ==
    \A i, j \in 1..Len(returned) :
        i < j => \A m \in returned[i], other \in returned[j] :
                     Pair(m) # Pair(other)

\* Every round of the largest roster has been returned, the last by a
\* ranking-based selection.
C2_Witness ==
    /\ Len(list_of_players) = MaxPlayers
    /\ Len(returned) = MaxPlayers - 1
    /\ call = "generate_next_round_from_ranking"
    /\ result.kind = "return"

\* C3 - Exhaustion: once N-1 selections have returned a configuration,
\* every further selection of any kind gives back no configuration (None,
\* or the IndexError of the first-round pop) and leaves the engine as it is.
C3_Exhaustion ==
    [][(origin # "none" /\ Len(returned) = Len(list_of_players) - 1)
          => /\ result'.kind \in { "None", "IndexError" }
             /\ returned' = returned
             /\ possibles_configurations' = possibles_configurations]_vars

\* A ranking-based selection was refused after all N-1 rounds were returned.
C3_Witness ==
    /\ Len(list_of_players) = MaxPlayers
    /\ Len(returned) = Len(list_of_players) - 1
    /\ call = "generate_next_round_from_ranking"
    /\ result = None

\* C4 - Reconstruction idempotence: after any selections on a fresh engine,
\* instantiate_pairing with its roster, its arrangement and its played
\* matches gives an engine whose remaining schedule holds exactly the
\* configurations not yet selected, with the same memory.
C4_Reconstruction ==
    origin = "fresh"
        => /\ Range(Reconstructed.possibles_configurations)
                 = Range(possibles_configurations)
           /\ Len(Reconstructed.possibles_configurations)
                 = Len(possibles_configurations)
           /\ Reconstructed.played_matches = played_matches

\* A fresh engine of the largest roster with one round selected and others
\* left.
C4_Witness ==
    /\ origin = "fresh"
    /\ Len(list_of_players) = MaxPlayers
    /\ Len(returned) = 1
    /\ Len(possibles_configurations) = MaxPlayers - 2
    /\ Len(Reconstructed.possibles_configurations) = MaxPlayers - 2

\* The values of the scenario with four players.
Arrangement1234 == <<P(1), P(2), P(3), P(4)>>

Round13 == { <<P(1), P(3)>>, <<P(2), P(4)>> }

Round12 == { <<P(1), P(2)>>, <<P(3), P(4)>> }

Round14 == { <<P(1), P(4)>>, <<P(2), P(3)>> }

Ranking1243 ==
    [rank \in 1..4 |-> <<(<<P(1), P(2), P(4), P(3)>>)[rank]>>]

OnArrangement1234 ==
    origin = "fresh" /\ initial_configuration = Arrangement1234

\* C5 - Scenario, arrangement [p1,p2,p3,p4]: the schedule is, in order,
\* {(p1,p3),(p2,p4)}, {(p1,p2),(p3,p4)}, {(p1,p4),(p2,p3)}; the first-round
\* selection returns the last of them; the selection by the ranking
\* {1:[p1], 2:[p2], 3:[p4], 4:[p3]} then returns {(p1,p2),(p3,p4)}; a last
\* first-round selection returns {(p1,p3),(p2,p4)} and empties the schedule.
C5_Scenario ==
    [][/\ (origin = "none" /\ OnArrangement1234')
            => possibles_configurations' = <<Round13, Round12, Round14>>
       /\ (OnArrangement1234 /\ returned = <<>>
              /\ GenerateFirstRoundConfiguration)
            => /\ result' = Return(Round14)
               /\ possibles_configurations' = <<Round13, Round12>>
       /\ (OnArrangement1234 /\ returned = <<Round14>>
              /\ GenerateNextRoundFromRanking(Ranking1243))
            => /\ result' = Return(Round12)
               /\ possibles_configurations' = <<Round13>>
       /\ (OnArrangement1234 /\ returned = <<Round14, Round12>>
              /\ GenerateFirstRoundConfiguration)
            => /\ result' = Return(Round13)
               /\ possibles_configurations' = <<>>]_vars

\* The end of the scenario: the three rounds returned in that order.
C5_Witness ==
    /\ OnArrangement1234
    /\ returned = <<Round14, Round12, Round13>>
    /\ call = "generate_first_round_configuration"
    /\ possibles_configurations = <<>>

\* C7 - A first-round selection that returns no configuration gives the
\* 'no result' outcome that ranking-based selection gives on an exhausted
\* engine.
C7_FirstRoundNoResult ==
    (call = "generate_first_round_configuration" /\ result.kind # "return")
        => result = None

\* C8 - What anchor-based selection gives back when it finds no round is
\* never the value by which ranking-based selection signalled exhaustion.
C8_Distinguishable ==
    (call = "generate_round_configuration_from_match" /\ result.kind # "return")
        => result # exhaustion_signal

\* C9 - Played-match memory only grows: every step leaves in memory all the
\* matches that were in it, and recording again a configuration already
\* returned changes nothing.
C9_MemoryGrows ==
    [][/\ played_matches \subseteq played_matches'
       /\ \A i \in 1..Len(returned') :
             add_to_memory(played_matches', returned'[i]) = played_matches']_vars

\* A selection failed on an engine whose memory holds every match of the
\* largest roster.
C9_Witness ==
    /\ Len(list_of_players) = MaxPlayers
    /\ Cardinality(played_matches) * 2 = MaxPlayers * (MaxPlayers - 1)
    /\ Len(returned) >= 2
    /\ call = "generate_round_configuration_from_match"
    /\ result = None

\* C10 - Determinism across construction paths: a fresh engine whose
\* shuffle gave the arrangement A and the engine instantiate_pairing builds
\* from A and an empty played list hold the same schedule in the same order,
\* and the same calls give the same results and leave the same state on both.
C10_Determinism ==
    origin = "fresh"
        => /\ twin.possibles_configurations = possibles_configurations
           /\ twin = self
           /\ twin_result = result

\* Both engines have returned every round of the largest roster.
C10_Witness ==
    /\ origin = "fresh"
    /\ Len(list_of_players) = MaxPlayers
    /\ Len(returned) = MaxPlayers - 1
    /\ twin_result.kind = "return"
    /\ twin.possibles_configurations = <<>>

\* ------------------------------------------------------------------------
\* Ranking-based selection, seen from the state it is called in
\* ------------------------------------------------------------------------

\* The rankings that cover the whole roster.
FullRankings(players) == Rankings(players) \ { <<>> }

\* The players a ranking lists.
Ranked(dict_ranking) ==
    UNION { Range(dict_ranking[rank]) : rank \in DOMAIN dict_ranking }

\* What generate_next_round_from_ranking gives when called in this state.
ByRanking(dict_ranking) ==
    generate_next_round_from_ranking(self, dict_ranking)

\* The unplayed pairs of listed players that a remaining configuration holds.
Playable(dict_ranking) ==
    { m \in { SortedPair(a, b) : a \in Ranked(dict_ranking),
                                 b \in Ranked(dict_ranking) } :
        /\ m[1] # m[2]
        /\ m \notin played_matches
        /\ \E i \in 1..Len(possibles_configurations) :
              m \in possibles_configurations[i] }

\* C12 - The pairwise scan returns only on success: whenever some unplayed
\* pair of ranked players is in a remaining configuration, ranking-based
\* selection returns a configuration, also on an engine restored from a
\* history that is not made of whole configurations.
C12_ScanGoesOn ==
    origin # "none"
        => \A dict_ranking \in Rankings(list_of_players) :
              Playable(dict_ranking) # {}
                  => ByRanking(dict_ranking).result.kind = "return"

\* C13 - Progress with ranking selection: on an engine reached from fresh
\* construction, selection by any ranking that covers the roster returns a
\* configuration if and only if the remaining schedule is not empty; the
\* rounds returned and the rounds remaining are N-1 together, so repeated
\* ranking selection gives the N-1 rounds and then no result.
C13_RankingProgress ==
    origin = "fresh"
        => /\ \A dict_ranking \in FullRankings(list_of_players) :
                 (ByRanking(dict_ranking).result.kind = "return")
                     <=> (possibles_configurations # <<>>)
           /\ Len(returned) + Len(possibles_configurations)
                 = Len(list_of_players) - 1

\* A fresh engine of the largest roster that gave its last round to a
\* ranking-based selection.
C13_Witness ==
    /\ origin = "fresh"
    /\ Len(list_of_players) = MaxPlayers
    /\ call = "generate_next_round_from_ranking"
    /\ result.kind = "return"
    /\ Len(returned) = MaxPlayers - 1
    /\ possibles_configurations = <<>>

\* The list without its i-th element.
Without(configurations, i) ==
    SubSeq(configurations, 1, i - 1)
        \o SubSeq(configurations, i + 1, Len(configurations))

\* C14 - Successful anchor-based selection: when match m is in a remaining
\* configuration C, generate_round_configuration_from_match(m) returns C,
\* removes C and nothing else from the remaining schedule (the others stay,
\* in the same order), adds the matches of C and nothing else to memory,
\* and leaves roster and arrangement as they are.
C14_AnchorFrame ==
    origin # "none"
        => \A match \in Matches(list_of_players) :
           \A i \in 1..Len(possibles_configurations) :
              match \in possibles_configurations[i]
                 => LET outcome ==
                            generate_round_configuration_from_match(self, match)
                    IN  /\ outcome.result = Return(possibles_configurations[i])
                        /\ outcome.engine.possibles_configurations
                              = Without(possibles_configurations, i)
                        /\ outcome.engine.played_matches
                              = played_matches \cup possibles_configurations[i]
                        /\ outcome.engine.list_of_players = list_of_players
                        /\ outcome.engine.initial_configuration
                              = initial_configuration

\* An anchor-based selection on the largest roster returned a configuration
\* of several matches and left others in the schedule.
C14_Witness ==
    /\ Len(list_of_players) = MaxPlayers
    /\ call = "generate_round_configuration_from_match"
    /\ result.kind = "return"
    /\ Cardinality(result.value) > 1
    /\ result.value \subseteq played_matches
    /\ Len(possibles_configurations) >= 1

\* C15 - In every reachable engine state, fresh or restored from any list
\* of played matches (a partial history included), no configuration of the
\* remaining schedule holds a match that is in played-match memory.
C15_NoPlayedRemaining ==
    origin # "none"
        => \A i \in 1..Len(possibles_configurations) :
           \A m \in possibles_configurations[i], recorded \in played_matches :
              Pair(m) # Pair(recorded)

\* A match written with the player of the lower index first.
Canonical(match) == match = SortedPair(match[1], match[2])

\* C16 - Canonical matches: in every reachable engine state every match of
\* a remaining configuration or of played-match memory is in canonical
\* form, whichever way round the caller supplied its two players.
C16_Canonical ==
    origin # "none"
        => /\ \A m \in played_matches : Canonical(m)
           /\ \A i \in 1..Len(possibles_configurations) :
              \A m \in possibles_configurations[i] : Canonical(m)

\* C17 - Partition invariant: in every state reached from a fresh engine by
\* any sequence of selections, every unordered pair of roster players is
\* either in played-match memory or in exactly one remaining configuration,
\* never both and never neither; and remaining plus returned configurations
\* are N-1.
C17_Partition ==
    origin = "fresh"
        => /\ \A i, j \in 1..Len(list_of_players) :
                 i < j
                    => LET a == list_of_players[i]
                           b == list_of_players[j]
                           recorded == \E m \in played_matches : Pair(m) = {a, b}
                           holding == Holding(possibles_configurations, a, b)
                       IN  \/ recorded /\ holding = {}
                           \/ ~recorded /\ Cardinality(holding) = 1
           /\ Len(possibles_configurations) + Len(returned)
                 = Len(list_of_players) - 1

\* Part of the schedule of a fresh engine on the largest roster is in
\* memory, part of it remains.
C17_Witness ==
    /\ origin = "fresh"
    /\ Len(list_of_players) = MaxPlayers
    /\ call = "generate_first_round_configuration"
    /\ result.kind = "return"
    /\ Len(returned) >= 2
    /\ possibles_configurations # <<>>

\* C18 - Restore preserves order: the engine instantiate_pairing builds from
\* a running engine's roster, arrangement and played matches holds the
\* remaining configurations in the same list order as the running engine
\* and is the same engine value, so that every selection call gives the
\* same result and leaves the same state on both: the first-round pop and
\* every anchor search, hence the ranking-based selection made of them.
C18_RestoreOrder ==
    origin # "none"
        => \E rebuilt \in { Reconstructed } :
              /\ rebuilt.possibles_configurations = possibles_configurations
              /\ rebuilt = self
              /\ generate_first_round_configuration(rebuilt)
                    = generate_first_round_configuration(self)
              /\ \A match \in Matches(list_of_players) :
                    generate_round_configuration_from_match(rebuilt, match)
                       = generate_round_configuration_from_match(self, match)

\* A running engine of the largest roster after an anchor-based selection,
\* with several configurations left for the reconstruction to order.
C18_Witness ==
    /\ Len(list_of_players) = MaxPlayers
    /\ call = "generate_round_configuration_from_match"
    /\ result.kind = "return"
    /\ Len(possibles_configurations) >= 2
    /\ Len(Reconstructed.possibles_configurations) >= 2

\* C19 - A selection that returns no configuration changes nothing: when
\* generate_round_configuration_from_match is called with a match no
\* remaining configuration holds, or generate_next_round_from_ranking gives
\* no result, the remaining schedule (content and order) and the
\* played-match memory are what they were before the call.
C19_FailedSelectionFrame ==
    [][(/\ call' \in { "generate_round_configuration_from_match",
                       "generate_next_round_from_ranking" }
        /\ result'.kind # "return")
          => /\ possibles_configurations' = possibles_configurations
             /\ played_matches' = played_matches]_vars

\* An anchor-based selection found nothing on an engine that has returned a
\* round and has others left.
C19_Witness ==
    /\ call = "generate_round_configuration_from_match"
    /\ result = None
    /\ Len(returned) >= 1
    /\ possibles_configurations # <<>>
    /\ played_matches # {}

\* ------------------------------------------------------------------------
\* Six players restored after a history of at most one match
\* ------------------------------------------------------------------------

Roster6 == <<P(1), P(2), P(3), P(4), P(5), P(6)>>

\* The histories a caller persisted before the first round was complete:
\* nothing, or one canonical match.
ShortHistories(players) ==
    { <<>> } \cup { <<m>> : m \in { c \in Matches(players) : Canonical(c) } }

\* Pairing.instantiate_pairing(players, players, list_played_matches): the
\* persisted arrangement is the roster as entered.
InstantiateAsEntered(players, histories) ==
    /\ origin = "none"
    /\ \E list_played_matches \in histories :
          /\ Becomes(instantiate_pairing(players, players, list_played_matches))
          /\ twin' = instantiate_pairing(players, players, list_played_matches)
    /\ origin' = "restored"
    /\ call' = "instantiate_pairing"
    /\ UNCHANGED <<result, returned, twin_result, exhaustion_signal>>
    /\ UNCHANGED form_vars

NextPartial ==
    \/ InstantiateAsEntered(Roster6, ShortHistories(Roster6))
    \/ GenerateFirstRoundConfiguration
    \/ \E match \in Matches(list_of_players) :
          GenerateRoundConfigurationFromMatch(match)
    \/ \E dict_ranking \in Rankings(list_of_players) :
          GenerateNextRoundFromRanking(dict_ranking)

SpecPartial == Init /\ [][NextPartial]_vars

\* The players of the rank groups up to rank r, best rank first, each group
\* as listed.
RECURSIVE PoolUpTo(_, _)
PoolUpTo(dict_ranking, r) ==
    LET better == { k \in DOMAIN dict_ranking : k < r }
    IN  IF better = {}
        THEN dict_ranking[r]
        ELSE PoolUpTo(dict_ranking,
                      CHOOSE k \in better : \A other \in better : k >= other)
                 \o dict_ranking[r]

\* The places <<i, j>>, i before j, of a pool whose canonical pair is not in
\* memory.
UnplayedPlaces(pool) ==
    { <<i, j>> \in (1..Len(pool)) \X (1..Len(pool)) :
        i < j /\ SortedPair(pool[i], pool[j]) \notin played_matches }

\* The ranks whose prefix of rank groups holds an unplayed pair.
OpenRanks(dict_ranking) ==
    { r \in DOMAIN dict_ranking :
        UnplayedPlaces(PoolUpTo(dict_ranking, r)) # {} }

\* The first unplayed canonical pair, in scan order, of the smallest prefix
\* of rank groups that holds one.
FirstOpenPair(dict_ranking) ==
    LET open == OpenRanks(dict_ranking)
        pool == PoolUpTo(dict_ranking,
                         CHOOSE r \in open : \A other \in open : r <= other)
        places == UnplayedPlaces(pool)
        first == CHOOSE p \in places :
                    \A q \in places :
                       p[1] < q[1] \/ (p[1] = q[1] /\ p[2] <= q[2])
    IN  SortedPair(pool[first[1]], pool[first[2]])

\* The configuration a ranking-based selection returns is the remaining one
\* that holds the first open pair.
ChosenByRanking(dict_ranking) ==
    ByRanking(dict_ranking).result.kind = "return"
        => /\ OpenRanks(dict_ranking) # {}
           /\ \E i \in 1..Len(possibles_configurations) :
                 /\ possibles_configurations[i]
                       = ByRanking(dict_ranking).result.value
                 /\ FirstOpenPair(dict_ranking) \in possibles_configurations[i]

\* Memory holds the matches of the configurations that left the schedule,
\* and no others.
WholeRounds ==
    played_matches
        = UNION (Range(generate_circle_configurations(initial_configuration, <<>>))
                    \ Range(possibles_configurations))

\* C11 - Ranking-weighted choice, as claimed for every engine: given a
\* ranking covering the roster, the configuration
\* generate_next_round_from_ranking returns is the remaining configuration
\* holding the first unplayed canonical pair in scan order of the smallest
\* prefix of rank groups that holds any unplayed pair.
C11_RankingChoice ==
    origin # "none"
        => \A dict_ranking \in FullRankings(list_of_players) :
              ChosenByRanking(dict_ranking)

\* C11 - Ranking-weighted choice, on engines whose memory is made of whole
\* configurations (fresh engines, and engines restored from a history of
\* complete rounds): the configuration returned is the remaining one holding
\* the first unplayed canonical pair in scan order of the smallest prefix of
\* rank groups, keys ascending, that holds any unplayed pair.
C11_RankingChoiceWholeRounds ==
    (origin # "none" /\ WholeRounds)
        => \A dict_ranking \in FullRankings(list_of_players) :
              ChosenByRanking(dict_ranking)

\* Six players, two whole rounds in memory, the second chosen by ranking,
\* and rounds left for the next ranking-based selection.
C11_Witness ==
    /\ Len(list_of_players) = Len(Roster6)
    /\ WholeRounds
    /\ call = "generate_next_round_from_ranking"
    /\ result.kind = "return"
    /\ Len(returned) >= 2
    /\ \E dict_ranking \in FullRankings(list_of_players) :
          /\ ByRanking(dict_ranking).result.kind = "return"
          /\ ChosenByRanking(dict_ranking)

\* ------------------------------------------------------------------------
\* The form controller (controllers/controller_form.py, class
\* ControllerForm).  A field of the form is a string, held as the sequence
\* of its characters; the data of an action is the list of its fields.
\* ------------------------------------------------------------------------

ValueError == [kind |-> "ValueError", value |-> {}]

\* A str value (an error message).
Str(text) == [kind |-> "str", value |-> text]

\* 'not error_msg'
Empty(message) == message.kind = "None" \/ message.value = ""

DigitChars == <<"0", "1", "2", "3", "4", "5", "6", "7", "8", "9">>

\* How many digits a string starts with.
RECURSIVE DigitRun(_)
DigitRun(string) ==
    IF string # <<>> /\ Head(string) \in Range(DigitChars)
    THEN 1 + DigitRun(Tail(string))
    ELSE 0

\* re.findall(r'\d+', date_string): the maximal runs of digits, in order.
RECURSIVE findall_digits(_)
findall_digits(date_string) ==
    IF date_string = <<>> THEN <<>>
    ELSE IF DigitRun(date_string) = 0 THEN findall_digits(Tail(date_string))
    ELSE <<SubSeq(date_string, 1, DigitRun(date_string))>>
             \o findall_digits(SubSeq(date_string, DigitRun(date_string) + 1,
                                      Len(date_string)))

\* separator.join(date_list)
RECURSIVE join(_, _)
join(separator, date_list) ==
    IF date_list = <<>> THEN <<>>
    ELSE IF Len(date_list) = 1 THEN Head(date_list)
    ELSE Head(date_list) \o separator \o join(separator, Tail(date_list))

reformat_date(date_string) ==
    LET date_list == findall_digits(date_string)
    IN  join(<<"-">>,
             [idx \in 1..Len(date_list) |->
                 IF Len(date_list[idx]) < 2
                 THEN <<"0">> \o date_list[idx]
                 ELSE date_list[idx]])

\* int(string) on the strings the model enters: digits only give their
\* number, anything else (the empty string too) raises ValueError.
IsNumber(string) ==
    string # <<>> /\ \A i \in 1..Len(string) : string[i] \in Range(DigitChars)

RECURSIVE int(_)
int(string) ==
    IF string = <<>> THEN 0
    ELSE LET last == string[Len(string)]
             digit == (CHOOSE d \in 1..Len(DigitChars) : DigitChars[d] = last) - 1
         IN  int(SubSeq(string, 1, Len(string) - 1)) * Len(DigitChars) + digit

\* What a try_to_create_... call does: the answer it returns, the records it
\* saves, and the exception it raises if it ends that way (Unset if not).
FormOutcome(given, saved, raised) ==
    [answer |-> given, saved |-> saved, raised |-> raised]

\* Player(...).save_to_database() and Tournament(...).save_to_database():
\* the record saved, by its keyword arguments.
Record(model, fields) == [model |-> model, fields |-> fields]

\* data[k] of the source is data[k + 1] here.
try_to_create_new_player(data) ==
    IF Len(data) # 4
    THEN FormOutcome(Return(<<"ERROR", "INCOMPLETE">>), <<>>, Unset)
    ELSE IF Len(data[4]) # 7
    THEN FormOutcome(Return(<<"ERROR", "CHESS_ID">>), <<>>, Unset)
    ELSE IF Len(reformat_date(data[3])) # 10
    THEN FormOutcome(Return(<<"ERROR", "DATE">>), <<>>, Unset)
    ELSE FormOutcome(None,
                     << Record("Player", <<data[1], data[2],
                                           reformat_date(data[3]), data[4]>>) >>,
                     Unset)

\* No test of len(data): data[2], data[3], data[5] raise IndexError on a
\* list that is too short, and int(data[4]) raises ValueError on a field
\* that is not a number.
try_to_create_tournament(data) ==
    IF Len(data) < 3
    THEN FormOutcome(None, <<>>, IndexError)
    ELSE IF Len(reformat_date(data[3])) # 10
    THEN FormOutcome(Return(<<"ERROR", "DATE">>), <<>>, Unset)
    ELSE IF Len(data) < 4
    THEN FormOutcome(None, <<>>, IndexError)
    ELSE IF Len(reformat_date(data[4])) # 10
    THEN FormOutcome(Return(<<"ERROR", "DATE">>), <<>>, Unset)
    ELSE IF Len(data) < 6
    THEN FormOutcome(None, <<>>, IndexError)
    ELSE IF ~IsNumber(data[5])
    THEN FormOutcome(None, <<>>, ValueError)
    ELSE FormOutcome(None,
                     << Record("Tournament",
                               <<data[1], data[2], reformat_date(data[3]),
                                 reformat_date(data[4]), data[6],
                                 int(data[5])>>) >>,
                     Unset)

\* Any other element falls off the end of the method: None.
try_to_create_element(asked, data) ==
    IF asked = "NEW_PLAYER" THEN try_to_create_new_player(data)
    ELSE IF asked = "NEW_TOURNAMENT" THEN try_to_create_tournament(data)
    ELSE FormOutcome(None, <<>>, Unset)

\* A truthy answer that names none of the three errors falls off the end of
\* the method: None.
handle_answer(given) ==
    IF given.kind = "return"
    THEN IF "INCOMPLETE" \in Range(given.value) THEN Str("Form is incomplete")
         ELSE IF "CHESS_ID" \in Range(given.value)
         THEN Str("Invalid Chess ID must follow : AA00000")
         ELSE IF "DATE" \in Range(given.value) THEN Str("Date is invalid")
         ELSE None
    ELSE Str("")

\* ------------------------------------------------------------------------
\* What the view hands to the loop
\* ------------------------------------------------------------------------

Elements == { "NEW_PLAYER", "NEW_TOURNAMENT" }

\* A field where only the presence of the text matters.
SomeText == <<"a">>

\* Dates as typed: well formed, with one-digit parts, with a short year,
\* empty, and ten digits in a row.
Dates ==
    { <<"2", "0", "0", "0", "-", "0", "1", "-", "0", "1">>,
      <<"2", "0", "0", "0", "-", "1", "-", "1">>,
      <<"1", "-", "1", "-", "1">>,
      <<>>,
      <<"1", "2", "3", "4", "5", "6", "7", "8", "9", "0">> }

ChessIds == { <<"A", "B", "1", "2", "3", "4", "5">>, <<"A", "B", "1">> }

\* The field of the number of rounds as typed: a number, a word, nothing.
Rounds == { <<"4">>, <<"x">>, <<>> }

\* The data of a player form: four fields, or fewer.
PlayerForms ==
    { <<SomeText, SomeText, date, chess_id>> :
          date \in Dates, chess_id \in ChessIds }
        \cup { <<SomeText, SomeText, date>> : date \in Dates }
        \cup { <<>> }

\* The data of a tournament form: six fields, or fewer.
TournamentForms ==
    { <<SomeText, SomeText, date_start, date_end, rounds_number, SomeText>> :
          date_start \in Dates, date_end \in Dates, rounds_number \in Rounds }
        \cup { <<SomeText, SomeText, date_start, date_end>> :
                  date_start \in Dates, date_end \in Dates }
        \cup { <<SomeText, SomeText>> }

\* The view was built for self.element and hands on the data of its form.
FormData(asked) ==
    IF asked = "NEW_PLAYER" THEN PlayerForms ELSE TournamentForms

\* ------------------------------------------------------------------------
\* ControllerForm.start
\* ------------------------------------------------------------------------

\* ControllerForm(stdscr, element).start(), up to the loop.
Start(asked) ==
    /\ form_pc = "idle"
    /\ form_pc' = "loop"
    /\ element' = asked
    /\ error_msg' = Str("")
    /\ UNCHANGED <<action, answer, database, start_result>>
    /\ UNCHANGED engine_vars

\* One turn of the loop where the view gives 'BACK'.
Back ==
    /\ form_pc = "loop"
    /\ action' = ViewAction("BACK", "", <<>>)
    /\ form_pc' = "returned"
    /\ start_result' = None
    /\ UNCHANGED <<element, error_msg, answer, database>>
    /\ UNCHANGED engine_vars

\* One turn of the loop where the view gives ('VALIDATE', element, data).
Validate(data) ==
    /\ form_pc = "loop"
    /\ action' = ViewAction("VALIDATE", element, data)
    /\ \E outcome \in { try_to_create_element(element, data) } :
          /\ database' = database \o outcome.saved
          /\ IF outcome.raised # Unset
             THEN /\ form_pc' = "raised"
                  /\ start_result' = outcome.raised
                  /\ UNCHANGED <<answer, error_msg>>
             ELSE /\ answer' = outcome.answer
                  /\ error_msg' = handle_answer(outcome.answer)
                  /\ IF Empty(handle_answer(outcome.answer))
                     THEN /\ form_pc' = "returned"
                          /\ start_result' = Str(element)
                     ELSE UNCHANGED <<form_pc, start_result>>
    /\ UNCHANGED element
    /\ UNCHANGED engine_vars

\* One turn of the loop where the view gives anything else: neither branch
\* of the if is taken.
Other ==
    /\ form_pc = "loop"
    /\ action' = ViewAction("OTHER", "", <<>>)
    /\ UNCHANGED <<form_pc, element, error_msg, answer, database, start_result>>
    /\ UNCHANGED engine_vars

NextForm ==
    \/ \E asked \in Elements : Start(asked)
    \/ Back
    \/ \E data \in FormData(element) : Validate(data)
    \/ Other

SpecForm == Init /\ [][NextForm]_vars

\* C20 - Form loop of ControllerForm.start: the loop ends only on a BACK
\* action (None returned, nothing saved) or after a VALIDATE action whose
\* data passed validation and whose record was saved (the element
\* returned); a VALIDATE action answered with an 'INCOMPLETE', 'CHESS_ID'
\* or 'DATE' error saves no record, leaves a non-empty error message and
\* keeps the loop running.
C20_FormLoop ==
    /\ form_pc \notin { "idle", "loop" }
          => \/ /\ form_pc = "returned"
                /\ action.name = "BACK"
                /\ start_result.kind = "None"
                /\ database = <<>>
             \/ /\ form_pc = "returned"
                /\ action.name = "VALIDATE"
                /\ answer.kind = "None"
                /\ start_result = Str(element)
                /\ Len(database) = 1
    /\ (action.name = "VALIDATE" /\ form_pc # "raised"
           /\ answer.kind = "return")
          => /\ form_pc = "loop"
             /\ ~Empty(error_msg)
             /\ database = <<>>

====
